---- MODULE Spec2Model ----
(***************************************************************************)
(* Model of package pool (pool.go): a pool of net.Conn kept in a buffered  *)
(* channel, guarded by one mutex.  Threads are the constructor (Main,      *)
(* running New) and client goroutines calling Get, Put and Close.  Every   *)
(* action is one step of the code between two points where another         *)
(* goroutine can interleave.                                               *)
(***************************************************************************)
EXTENDS Integers, Sequences, FiniteSets, TLC

\* ---- bounds ----
NumProcs == 2          \* client goroutines
MaxCalls == 3          \* calls the client goroutines make in all
MaxCapArg == 2         \* largest capacity argument handed to New

\* ---- values ----
Main == 0                                   \* the goroutine that runs New
Procs == 1..NumProcs
Threads == {Main} \cup Procs
Unlocked == -1                              \* sync.Mutex with no holder
NilConn == 0                                \* a nil net.Conn
NIL == "nil"                                \* nil chan / nil Factory
CH == "chan"                                \* the channel made by New
FN == "factory"                             \* the Factory handed to New
CapArgs == (0 - 1)..MaxCapArg               \* arguments of New
MaxConnId == MaxCapArg + MaxCalls           \* connections the factory can mint
ConnIds == 1..MaxConnId
NoErr == "nil"
ErrClosed == "pool is closed"               \* errors.New("pool is closed")
ErrFactory == "factory error"               \* whatever error the Factory returns
ErrInvalid == "invalid capacity settings"
ErrFill == "factory is not able to fill the pool"

VARIABLES
    conns,        \* Pool.conns: NIL or CH
    factory,      \* Pool.factory: NIL or FN
    mu,           \* Pool.mu: Unlocked or the thread holding it
    chanBuf,      \* buffer of the channel (sequence of connections)
    chanCap,      \* cap of the channel
    chanClosed,   \* close(conns) has run
    pc,           \* position of each thread
    frame,        \* locals of the call each thread is in
    ret,          \* what the last completed call of each thread returned
    held,         \* connections each client holds (got and not yet put)
    newArgs,      \* arguments of New
    newI,         \* loop counter i of New
    newRes,       \* result of New
    nextConn,     \* next connection the factory mints
    closeCount,   \* how many times conn.Close() ran on each connection
    closedBy,     \* which code closed each connection
    panic,        \* run-time panic that ended the program, or "none"
    calls,        \* calls begun by clients, per operation
    swapped,      \* closePool has run
    liveClosers,  \* threads whose closePool returned the live channel
    chanCloses,   \* close(conns) executions
    factoryCalls  \* Factory invocations by the pool, by caller

poolVars == <<conns, factory, mu>>
chanVars == <<chanBuf, chanCap, chanClosed>>
threadVars == <<pc, frame, ret, held>>
newVars == <<newArgs, newI, newRes>>
connVars == <<nextConn, closeCount, closedBy>>
ghostVars == <<calls, swapped, liveClosers, chanCloses, factoryCalls>>
vars == <<poolVars, chanVars, threadVars, newVars, connVars, panic, ghostVars>>

NoFrame == [op |-> "none", conn |-> NilConn, conns |-> NIL,
            afterSwap |-> FALSE, minted |-> FALSE, script |-> TRUE]
NoRet == [op |-> "none", conn |-> NilConn, err |-> NoErr, pooled |-> FALSE,
          afterSwap |-> FALSE, minted |-> FALSE, live |-> FALSE, script |-> TRUE]

Init ==
    /\ conns = NIL /\ factory = NIL /\ mu = Unlocked
    /\ chanBuf = <<>> /\ chanCap = 0 /\ chanClosed = FALSE
    /\ pc = [t \in Threads |-> IF t = Main THEN "New" ELSE "idle"]
    /\ frame = [t \in Threads |-> NoFrame]
    /\ ret = [t \in Threads |-> NoRet]
    /\ held = [t \in Threads |-> {}]
    /\ newArgs = [initalCap |-> 0, maxCap |-> 0]
    /\ newI = 0
    /\ newRes = [pool |-> FALSE, err |-> NoErr, done |-> FALSE]
    /\ nextConn = 1
    /\ closeCount = [c \in ConnIds |-> 0]
    /\ closedBy = [c \in ConnIds |-> {}]
    /\ panic = "none"
    /\ calls = [Get |-> 0, Put |-> 0, Close |-> 0]
    /\ swapped = FALSE
    /\ liveClosers = {}
    /\ chanCloses = 0
    /\ factoryCalls = [New |-> 0, Get |-> 0]


\* ---- helpers ----
Running == panic = "none"              \* an unrecovered panic ends the program

SetFrame(self, f) == frame' = [frame EXCEPT ![self] = f]

\* the script of TestPoolConcurrent: a goroutine calls Get and then Put with
\* what Get returned; one goroutine calls Close once
Script(self) == IF pc[self] = "idle" THEN ret[self].script ELSE frame[self].script

\* a call returns: the result is recorded and the thread is idle again
Return(self, r) ==
    /\ ret' = [ret EXCEPT ![self] =
                 r @@ [op |-> frame[self].op, afterSwap |-> frame[self].afterSwap,
                       script |-> frame[self].script] @@ NoRet]
    /\ frame' = [frame EXCEPT ![self] = NoFrame]

\* an unsynchronised read of a field another goroutine may be writing: the
\* value now in memory, or the value this goroutine last saw published
RacyRead(now, seen) == {now, seen}

\* ---- pure parts of the code ----
\* pool.go:28 (the variant lets initalCap = 0 through)
InvalidCapsLax(initalCap, maxCap) == initalCap < 0 \/ maxCap <= 0 \/ initalCap > maxCap
InvalidCaps(initalCap, maxCap) == initalCap <= 0 \/ maxCap <= 0 \/ initalCap > maxCap

\* pool.go:64 (the variant is a Get that skips the check)
GetSeesClosedUnchecked(c) == FALSE
GetSeesClosed(c) == c = NIL

\* pool.go:69, receive in a select with default: ready if the channel is
\* non-nil and has a buffered value or is closed
RecvReady(c) == c # NIL /\ (Len(chanBuf) > 0 \/ chanClosed)
RecvValue(c) == IF Len(chanBuf) > 0 THEN Head(chanBuf) ELSE NilConn
\* what the receive leaves in the buffer (the variant leaves the value there)
RecvRestPeek(buf) == buf
RecvRest(buf) == IF Len(buf) > 0 THEN Tail(buf) ELSE buf

\* pool.go:82 (the variant is a Put that skips the check)
PutRejectsAlways(c) == FALSE
PutRejects(c) == c = NilConn

\* pool.go:93 (the variant is a put that skips the check)
PutSeesClosedUnchecked(c) == FALSE
PutSeesClosed(c) == c = NIL

\* pool.go:98, send in a select with default: ready if the buffer has room
\* (the variant sends whatever the length)
SendReadyAlways(buf, cap) == TRUE
SendReady(buf, cap) == Len(buf) < cap

\* pool.go:122, pool.go:123: what closePool leaves in the two fields (the
\* variants leave a field as it was)
SeveredConnsKept == conns
SeveredConns == NIL
SeveredFactoryKept == factory
SeveredFactory == NIL

\* pool.go:128, cap of a nil channel is 0
MaximumCapacity == IF conns = NIL THEN 0 ELSE chanCap
\* pool.go:132, len of a nil channel is 0 (the variant measures the channel
\* New made, whatever p.conns is)
UsedCapacityOfChan == Len(chanBuf)
UsedCapacity == IF conns = NIL THEN 0 ELSE Len(chanBuf)

\* conn.Close()
ConnClose(c, by) ==
    /\ closeCount' = [closeCount EXCEPT ![c] = @ + 1]
    /\ closedBy' = [closedBy EXCEPT ![c] = @ \cup {by}]
    /\ UNCHANGED nextConn

\* ---- New (pool.go:27-49) ----
NewStart ==
    /\ Running /\ pc[Main] = "New"
    /\ \E ic \in CapArgs, mc \in CapArgs :
         /\ newArgs' = [initalCap |-> ic, maxCap |-> mc]
         /\ IF InvalidCaps(ic, mc)
            THEN /\ newRes' = [pool |-> FALSE, err |-> ErrInvalid, done |-> TRUE]
                 /\ pc' = [pc EXCEPT ![Main] = "done"]
                 /\ UNCHANGED <<poolVars, chanVars>>
            ELSE /\ conns' = CH /\ factory' = FN /\ mu' = mu
                 /\ chanBuf' = <<>> /\ chanCap' = mc /\ chanClosed' = FALSE
                 /\ pc' = [pc EXCEPT ![Main] = "New_loop"]
                 /\ UNCHANGED newRes
    /\ newI' = 0
    /\ UNCHANGED <<frame, ret, held, connVars, panic, ghostVars>>

\* pool.go:42, where the fill loop goes when the factory fails: into p.Close()
\* (the variant returns the error without closing the pool)
FillFailedNoClose == "New_fail"
FillFailed == "Close"

\* one iteration of the fill loop: factory(), then p.Close() or p.conns <- conn
NewLoop ==
    /\ Running /\ pc[Main] = "New_loop" /\ newI < newArgs.initalCap
    /\ factoryCalls' = [factoryCalls EXCEPT !.New = @ + 1]
    /\ \E ok \in BOOLEAN :
         IF ok
         THEN /\ Len(chanBuf) < chanCap          \* the send blocks while full
              /\ chanBuf' = Append(chanBuf, nextConn)
              /\ nextConn' = nextConn + 1
              /\ newI' = newI + 1
              /\ UNCHANGED <<pc, frame>>
         ELSE /\ pc' = [pc EXCEPT ![Main] = FillFailed]
              /\ SetFrame(Main, [NoFrame EXCEPT !.op = "Close", !.afterSwap = swapped])
              /\ UNCHANGED <<chanBuf, nextConn, newI>>
    /\ UNCHANGED <<poolVars, chanCap, chanClosed, ret, held, newArgs, newRes,
                   closeCount, closedBy, panic, calls, swapped, liveClosers, chanCloses>>

NewReturn ==
    /\ Running /\ pc[Main] = "New_loop" /\ newI >= newArgs.initalCap
    /\ newRes' = [pool |-> TRUE, err |-> NoErr, done |-> TRUE]
    /\ pc' = [pc EXCEPT ![Main] = "done"]
    /\ UNCHANGED <<poolVars, chanVars, frame, ret, held, newArgs, newI,
                   connVars, panic, ghostVars>>

\* pool.go:43, after p.Close() returned
NewFail ==
    /\ Running /\ pc[Main] = "New_fail"
    /\ newRes' = [pool |-> FALSE, err |-> ErrFill, done |-> TRUE]
    /\ pc' = [pc EXCEPT ![Main] = "done"]
    /\ UNCHANGED <<poolVars, chanVars, frame, ret, held, newArgs, newI,
                   connVars, panic, ghostVars>>

\* ---- a client goroutine calls an operation of the pool New returned ----
\* Put is called with nil, with a connection the goroutine holds, or with one
\* it has just dialled itself (conn, _ := factory(); p.Put(conn))
CallsBegun == calls.Get + calls.Put + calls.Close
\* goroutines are interchangeable, so they are numbered in the order of their
\* first call
Started(p) == pc[p] # "idle" \/ ret[p].op # "none"
CanCall(self) ==
    /\ Running /\ self \in Procs /\ newRes.pool /\ pc[self] = "idle"
    /\ CallsBegun < MaxCalls
    /\ \A q \in Procs : q < self => Started(q)

\* the result of the previous call is dropped when the next call begins
ClearRet(self) == ret' = [ret EXCEPT ![self] = NoRet]

CallGet(self) ==
    /\ CanCall(self)
    /\ pc' = [pc EXCEPT ![self] = "Get"]
    /\ SetFrame(self, [NoFrame EXCEPT !.op = "Get", !.afterSwap = swapped,
                         !.script = ret[self].script /\ ret[self].op \in {"none", "Put"}])
    /\ calls' = [calls EXCEPT !.Get = @ + 1]
    /\ ClearRet(self)
    /\ UNCHANGED <<poolVars, chanVars, held, newVars, connVars, panic,
                   swapped, liveClosers, chanCloses, factoryCalls>>

CallPut(self) ==
    /\ CanCall(self)
    /\ \E c \in held[self] \cup {NilConn, nextConn} :
         /\ SetFrame(self, [NoFrame EXCEPT !.op = "Put", !.conn = c, !.afterSwap = swapped,
                              !.script = /\ ret[self].script /\ ret[self].op = "Get"
                                         /\ ret[self].conn = c])
         /\ IF c = nextConn
            THEN /\ held' = [held EXCEPT ![self] = @ \cup {c}]
                 /\ nextConn' = nextConn + 1
            ELSE UNCHANGED <<held, nextConn>>
    /\ pc' = [pc EXCEPT ![self] = "Put"]
    /\ calls' = [calls EXCEPT !.Put = @ + 1]
    /\ ClearRet(self)
    /\ UNCHANGED <<poolVars, chanVars, newVars, closeCount, closedBy, panic,
                   swapped, liveClosers, chanCloses, factoryCalls>>

CallClose(self) ==
    /\ CanCall(self)
    /\ pc' = [pc EXCEPT ![self] = "Close"]
    /\ SetFrame(self, [NoFrame EXCEPT !.op = "Close", !.afterSwap = swapped,
                         !.script = ret[self].op = "none" /\ calls.Close = 0])
    /\ calls' = [calls EXCEPT !.Close = @ + 1]
    /\ ClearRet(self)
    /\ UNCHANGED <<poolVars, chanVars, held, newVars, connVars, panic,
                   swapped, liveClosers, chanCloses, factoryCalls>>


\* ---- Get (pool.go:62-77) ----
\* getConns, p.mu.Lock()
getConnsLock(self) ==
    /\ Running /\ pc[self] = "Get" /\ mu = Unlocked
    /\ mu' = self
    /\ pc' = [pc EXCEPT ![self] = "getConns"]
    /\ UNCHANGED <<conns, factory, chanVars, frame, ret, held, newVars,
                   connVars, panic, ghostVars>>

\* pool.go:54, the holder of the mutex when getConns returns (the variant
\* returns with the mutex still held)
GetConnsKeepsLock(self) == self
GetConnsUnlock(self) == Unlocked

\* getConns reads p.conns and unlocks; Get returns the error if it is nil
getConns(self) ==
    /\ Running /\ pc[self] = "getConns" /\ mu = self
    /\ mu' = GetConnsUnlock(self)
    /\ IF GetSeesClosed(conns)
       THEN /\ Return(self, [conn |-> NilConn, err |-> ErrClosed])
            /\ pc' = [pc EXCEPT ![self] = "idle"]
       ELSE /\ frame' = [frame EXCEPT ![self].conns = conns]
            /\ pc' = [pc EXCEPT ![self] = "select"]
            /\ UNCHANGED ret
    /\ UNCHANGED <<conns, factory, chanVars, held, newVars, connVars,
                   panic, ghostVars>>

\* select { case conn := <-p.conns: ... default: ... }; p.conns is read
\* without the lock
GetSelect(self) ==
    /\ Running /\ pc[self] = "select"
    /\ \E c \in RacyRead(conns, frame[self].conns) :
         IF RecvReady(c)
         THEN LET conn == RecvValue(c) IN
              /\ chanBuf' = RecvRest(chanBuf)
              /\ IF conn = NilConn
                 THEN /\ Return(self, [conn |-> NilConn, err |-> ErrClosed])
                      /\ UNCHANGED held
                 ELSE /\ Return(self, [conn |-> conn, err |-> NoErr, pooled |-> TRUE])
                      /\ held' = [held EXCEPT ![self] = @ \cup {conn}]
              /\ pc' = [pc EXCEPT ![self] = "idle"]
         ELSE /\ pc' = [pc EXCEPT ![self] = "factory"]
              /\ UNCHANGED <<chanBuf, frame, ret, held>>
    /\ UNCHANGED <<poolVars, chanCap, chanClosed, newVars, connVars,
                   panic, ghostVars>>

\* a variant of the step below in which Get also queues what it mints
GetFactoryPooled(self) ==
    /\ Running /\ pc[self] = "factory"
    /\ \E f \in RacyRead(factory, FN) :
         IF f = NIL
         THEN /\ panic' = "nil factory"
              /\ pc' = [pc EXCEPT ![self] = "panic"]
              /\ UNCHANGED <<frame, ret, held, nextConn, factoryCalls, chanBuf>>
         ELSE /\ factoryCalls' = [factoryCalls EXCEPT !.Get = @ + 1]
              /\ pc' = [pc EXCEPT ![self] = "idle"]
              /\ panic' = panic
              /\ \E ok \in BOOLEAN :
                   IF ok
                   THEN /\ Return(self, [conn |-> nextConn, err |-> NoErr, minted |-> TRUE])
                        /\ held' = [held EXCEPT ![self] = @ \cup {nextConn}]
                        /\ nextConn' = nextConn + 1
                        /\ chanBuf' = Append(chanBuf, nextConn)
                   ELSE /\ Return(self, [conn |-> NilConn, err |-> ErrFactory, minted |-> TRUE])
                        /\ UNCHANGED <<held, nextConn, chanBuf>>
    /\ UNCHANGED <<poolVars, chanCap, chanClosed, newVars, closeCount, closedBy,
                   calls, swapped, liveClosers, chanCloses>>

\* return p.factory(); p.factory is read without the lock, and calling a nil
\* func panics
GetFactory(self) ==
    /\ Running /\ pc[self] = "factory"
    /\ \E f \in RacyRead(factory, FN) :
         IF f = NIL
         THEN /\ panic' = "nil factory"
              /\ pc' = [pc EXCEPT ![self] = "panic"]
              /\ UNCHANGED <<frame, ret, held, nextConn, factoryCalls>>
         ELSE /\ factoryCalls' = [factoryCalls EXCEPT !.Get = @ + 1]
              /\ pc' = [pc EXCEPT ![self] = "idle"]
              /\ panic' = panic
              /\ \E ok \in BOOLEAN :
                   IF ok
                   THEN /\ Return(self, [conn |-> nextConn, err |-> NoErr, minted |-> TRUE])
                        /\ held' = [held EXCEPT ![self] = @ \cup {nextConn}]
                        /\ nextConn' = nextConn + 1
                   ELSE /\ Return(self, [conn |-> NilConn, err |-> ErrFactory, minted |-> TRUE])
                        /\ UNCHANGED <<held, nextConn>>
    /\ UNCHANGED <<poolVars, chanVars, newVars, closeCount, closedBy,
                   calls, swapped, liveClosers, chanCloses>>

\* ---- Put (pool.go:81-103) ----
\* if conn == nil { return }
Put(self) ==
    /\ Running /\ pc[self] = "Put"
    /\ IF PutRejects(frame[self].conn)
       THEN /\ Return(self, [conn |-> frame[self].conn, err |-> NoErr])
            /\ pc' = [pc EXCEPT ![self] = "idle"]
       ELSE /\ pc' = [pc EXCEPT ![self] = "put"]
            /\ UNCHANGED <<frame, ret>>
    /\ UNCHANGED <<poolVars, chanVars, held, newVars, connVars, panic, ghostVars>>

\* put, p.mu.Lock()
putLock(self) ==
    /\ Running /\ pc[self] = "put" /\ mu = Unlocked
    /\ mu' = self
    /\ pc' = [pc EXCEPT ![self] = "put_locked"]
    /\ UNCHANGED <<conns, factory, chanVars, frame, ret, held, newVars,
                   connVars, panic, ghostVars>>

\* the body of put under the lock, and the deferred unlock; a send on a
\* closed channel panics
put(self) ==
    /\ Running /\ pc[self] = "put_locked" /\ mu = self
    /\ mu' = Unlocked
    /\ IF PutSeesClosed(conns)
       THEN /\ pc' = [pc EXCEPT ![self] = "Put_close"]
            /\ UNCHANGED <<chanBuf, frame, ret, held, panic>>
       ELSE IF chanClosed
       THEN /\ panic' = "send on closed channel"
            /\ pc' = [pc EXCEPT ![self] = "panic"]
            /\ UNCHANGED <<chanBuf, frame, ret, held>>
       ELSE IF SendReady(chanBuf, chanCap)
       THEN /\ chanBuf' = Append(chanBuf, frame[self].conn)
            /\ held' = [held EXCEPT ![self] = @ \ {frame[self].conn}]
            /\ Return(self, [conn |-> frame[self].conn, err |-> NoErr, pooled |-> TRUE])
            /\ pc' = [pc EXCEPT ![self] = "idle"]
            /\ panic' = panic
       ELSE /\ pc' = [pc EXCEPT ![self] = "Put_close"]
            /\ UNCHANGED <<chanBuf, frame, ret, held, panic>>
    /\ UNCHANGED <<conns, factory, chanCap, chanClosed, newVars, connVars, ghostVars>>

\* _ = conn.Close(); Put has no result
PutCloseConn(self) ==
    /\ Running /\ pc[self] = "Put_close"
    /\ ConnClose(frame[self].conn, "Put")
    /\ held' = [held EXCEPT ![self] = @ \ {frame[self].conn}]
    /\ Return(self, [conn |-> frame[self].conn, err |-> NoErr, pooled |-> FALSE])
    /\ pc' = [pc EXCEPT ![self] = "idle"]
    /\ UNCHANGED <<poolVars, chanVars, newVars, panic, ghostVars>>

\* ---- Close (pool.go:107-125) ----
\* closePool, p.mu.Lock()
closePoolLock(self) ==
    /\ Running /\ pc[self] = "Close" /\ mu = Unlocked
    /\ mu' = self
    /\ pc' = [pc EXCEPT ![self] = "closePool"]
    /\ UNCHANGED <<conns, factory, chanVars, frame, ret, held, newVars,
                   connVars, panic, ghostVars>>

\* where Close returns to: New called it at pool.go:42
CloseReturn(self) == IF self = Main THEN "New_fail" ELSE "idle"

\* the body of closePool under the lock, the deferred unlock, and the nil
\* check of Close
closePool(self) ==
    /\ Running /\ pc[self] = "closePool" /\ mu = self
    /\ mu' = Unlocked
    /\ conns' = SeveredConns
    /\ factory' = SeveredFactory
    /\ swapped' = TRUE
    /\ IF conns = NIL
       THEN /\ Return(self, [live |-> FALSE])
            /\ pc' = [pc EXCEPT ![self] = CloseReturn(self)]
            /\ UNCHANGED liveClosers
       ELSE /\ frame' = [frame EXCEPT ![self].conns = conns]
            /\ liveClosers' = liveClosers \cup {self}
            /\ pc' = [pc EXCEPT ![self] = "close_chan"]
            /\ UNCHANGED ret
    /\ UNCHANGED <<chanVars, held, newVars, connVars, panic, calls,
                   chanCloses, factoryCalls>>

\* a variant of the step below that goes on to the loop without close(conns)
CloseChanSkipped(self) ==
    /\ Running /\ pc[self] = "close_chan"
    /\ pc' = [pc EXCEPT ![self] = "range"]
    /\ chanCloses' = chanCloses + 1
    /\ UNCHANGED <<poolVars, chanVars, frame, ret, held, newVars, connVars, panic,
                   calls, swapped, liveClosers, factoryCalls>>

\* close(conns); closing a closed channel panics
CloseChan(self) ==
    /\ Running /\ pc[self] = "close_chan"
    /\ IF chanClosed
       THEN /\ panic' = "close of closed channel"
            /\ pc' = [pc EXCEPT ![self] = "panic"]
            /\ UNCHANGED <<chanClosed, chanCloses>>
       ELSE /\ chanClosed' = TRUE
            /\ chanCloses' = chanCloses + 1
            /\ pc' = [pc EXCEPT ![self] = "range"]
            /\ panic' = panic
    /\ UNCHANGED <<poolVars, chanBuf, chanCap, frame, ret, held, newVars,
                   connVars, calls, swapped, liveClosers, factoryCalls>>

\* for conn := range conns: the next buffered connection, or the end of the
\* loop once the closed channel is empty; on an empty channel that is not
\* closed the loop waits
CloseRange(self) ==
    /\ Running /\ pc[self] = "range"
    /\ IF Len(chanBuf) > 0
       THEN /\ frame' = [frame EXCEPT ![self].conn = Head(chanBuf)]
            /\ chanBuf' = Tail(chanBuf)
            /\ pc' = [pc EXCEPT ![self] = "range_close"]
            /\ UNCHANGED ret
       ELSE /\ chanClosed
            /\ Return(self, [live |-> TRUE])
            /\ pc' = [pc EXCEPT ![self] = CloseReturn(self)]
            /\ UNCHANGED chanBuf
    /\ UNCHANGED <<poolVars, chanCap, chanClosed, held, newVars, connVars,
                   panic, ghostVars>>

\* _ = conn.Close() in the drain loop
CloseConn(self) ==
    /\ Running /\ pc[self] = "range_close"
    /\ ConnClose(frame[self].conn, "Close")
    /\ pc' = [pc EXCEPT ![self] = "range"]
    /\ UNCHANGED <<poolVars, chanVars, frame, ret, held, newVars, panic, ghostVars>>

\* ---- specification ----
Next ==
    \/ NewStart
    \/ NewLoop
    \/ NewReturn
    \/ NewFail
    \/ \E self \in Procs : CallGet(self)
    \/ \E self \in Procs : CallPut(self)
    \/ \E self \in Procs : CallClose(self)
    \/ \E self \in Procs : getConnsLock(self)
    \/ \E self \in Procs : getConns(self)
    \/ \E self \in Procs : GetSelect(self)
    \/ \E self \in Procs : GetFactory(self)
    \/ \E self \in Procs : Put(self)
    \/ \E self \in Procs : putLock(self)
    \/ \E self \in Procs : put(self)
    \/ \E self \in Procs : PutCloseConn(self)
    \/ \E self \in Threads : closePoolLock(self)
    \/ \E self \in Threads : closePool(self)
    \/ \E self \in Threads : CloseChan(self)
    \/ \E self \in Threads : CloseRange(self)
    \/ \E self \in Threads : CloseConn(self)

Spec == Init /\ [][Next]_vars

\* ---- scheduling ----
\* the steps of a thread that wait for the mutex
LockStep(self) == getConnsLock(self) \/ putLock(self) \/ closePoolLock(self)

\* the factory call of Get
FactoryStep(self) == GetFactory(self)

\* the other steps a thread takes inside a call (for Main, inside New)
WorkStep(self) ==
    \/ getConns(self) \/ GetSelect(self)
    \/ Put(self) \/ put(self) \/ PutCloseConn(self)
    \/ closePool(self) \/ CloseChan(self) \/ CloseRange(self) \/ CloseConn(self)
    \/ (self = Main /\ (NewStart \/ NewLoop \/ NewReturn \/ NewFail))

\* a step inside a call (for Main, inside New) other than the factory call
\* of Get
Progress == \E self \in Threads : LockStep(self) \/ WorkStep(self)

\* the factory call of some Get returns
FactoryReturns == \E self \in Procs : FactoryStep(self)

\* a runnable goroutine is always scheduled: while some step inside a call
\* can be taken, one is taken; a factory call made by Get may never return
HangSpec == Spec /\ WF_vars(Progress)

\* as HangSpec, and the factory returns (conn.Close() returns in both)
FairSpec == Spec /\ WF_vars(Progress) /\ WF_vars(FactoryReturns)

TypeOK ==
    /\ conns \in {NIL, CH} /\ factory \in {NIL, FN}
    /\ mu \in Threads \cup {Unlocked}
    /\ chanBuf \in Seq(ConnIds) /\ chanCap \in 0..(MaxCapArg + 1)
    /\ nextConn \in 1..(MaxConnId + 1)
    /\ \A t \in Threads : held[t] \subseteq ConnIds

\* ---- properties ----

\* C1: goroutines that each call Get and then Put the result, with one
\* concurrent Close, never panic: no Get calls a nil factory, no Put sends on
\* a closed channel, the channel is not closed twice.
C1_NoPanic ==
    ((\A p \in Procs : Script(p)) /\ calls.Close <= 1) => panic = "none"

\* the two parts of C1 the lock does guarantee
NoChannelPanic == panic \notin {"send on closed channel", "close of closed channel"}

\* C2: the pool calls Close on any connection at most once, by the Put that
\* could not enqueue it or by the Close that drained it, never by both.
C2_ClosedAtMostOnce ==
    \A c \in ConnIds : closeCount[c] <= 1 /\ Cardinality(closedBy[c]) <= 1

C2_Witness ==
    \E c, d \in ConnIds :
        /\ closeCount[c] = 1 /\ closedBy[c] = {"Put"}
        /\ closeCount[d] = 1 /\ closedBy[d] = {"Close"}

\* C3: a Get called after closePool has swapped fails with the pool-closed
\* error, returns no connection and never reaches the select or the factory.
C3_GetAfterSwapFails ==
    \A p \in Procs :
        /\ (frame[p].op = "Get" /\ frame[p].afterSwap) => pc[p] \in {"Get", "getConns"}
        /\ (ret[p].op = "Get" /\ ret[p].afterSwap) =>
               /\ ret[p].err = ErrClosed
               /\ ret[p].conn = NilConn
               /\ ~ret[p].minted

C3_Witness ==
    \E p \in Procs :
        /\ pc[p] = "idle" /\ ret[p].op = "Get" /\ ret[p].afterSwap
        /\ ret[p].err = ErrClosed /\ p \notin liveClosers

\* C4: once closePool has swapped, in every later state conns and factory
\* are nil and UsedCapacity() and MaximumCapacity() are 0, whatever calls
\* run afterwards.
C4_ClosedIsTerminal ==
    swapped => /\ conns = NIL /\ factory = NIL
               /\ UsedCapacity = 0 /\ MaximumCapacity = 0

C4_Witness ==
    /\ swapped /\ Len(chanBuf) > 0
    /\ \E p \in Procs : ret[p].afterSwap /\ ret[p].op \in {"Get", "Put"}

\* C5: among any number of Close calls exactly one obtains the live channel,
\* closes it and drains it; every other Close sees nil and does nothing.
C5_OneLiveCloser ==
    /\ Cardinality(liveClosers) <= 1
    /\ chanCloses <= 1
    /\ swapped => Cardinality(liveClosers) = 1
    /\ panic # "close of closed channel"
    /\ \A t \in Threads :
         (pc[t] \in {"close_chan", "range", "range_close"}) => t \in liveClosers

C5_OtherCloseDoesNothing ==
    \A t \in Threads :
        (pc[t] = "closePool" /\ pc'[t] # "closePool" /\ conns = NIL) =>
            /\ pc'[t] = CloseReturn(t)
            /\ UNCHANGED <<conns, factory, chanVars, connVars, held, liveClosers, chanCloses>>

C5_CloseIdempotent == []C5_OneLiveCloser /\ [][C5_OtherCloseDoesNothing]_vars

C5_Witness ==
    \E t, u \in Procs :
        /\ t # u
        /\ ret[t].op = "Close" /\ ret[t].live /\ pc[t] = "idle"
        /\ ret[u].op = "Close" /\ ~ret[u].live /\ pc[u] = "idle"
        /\ \E c \in ConnIds : closedBy[c] = {"Close"}

\* C6: while the pool is open 0 <= Len <= capacity, and no Put raises Len
\* above capacity.
C6_LenWithinCapacity ==
    /\ Len(chanBuf) <= chanCap
    /\ conns # NIL => /\ 0 <= UsedCapacity
                      /\ UsedCapacity <= MaximumCapacity
                      /\ MaximumCapacity = newArgs.maxCap

C6_Witness ==
    /\ conns # NIL /\ UsedCapacity = MaximumCapacity
    /\ \E p \in Procs : pc[p] = "Put_close" /\ ~frame[p].afterSwap

\* C7: at its locked step Put of a non-nil connection appends it (Len grows
\* by 1, the connection is not closed) iff the pool is open and Len <
\* capacity; otherwise it is not enqueued, Len is unchanged and Put closes it
\* exactly once as its next step.
C7_PutStep ==
    \A p \in Procs :
        LET c == frame[p].conn IN
        /\ (pc[p] = "put_locked" /\ pc'[p] # "put_locked") =>
              /\ c # NilConn
              /\ IF conns # NIL /\ UsedCapacity < MaximumCapacity
                 THEN /\ chanBuf' = Append(chanBuf, c)
                      /\ UsedCapacity' = UsedCapacity + 1
                      /\ closeCount' = closeCount
                      /\ pc'[p] = "idle" /\ ret'[p].pooled
                 ELSE /\ chanBuf' = chanBuf
                      /\ UsedCapacity' = UsedCapacity
                      /\ pc'[p] = "Put_close"
        /\ (pc[p] = "Put_close" /\ pc'[p] # "Put_close") =>
              /\ closeCount[c] = 0 /\ closeCount'[c] = 1
              /\ chanBuf' = chanBuf
              /\ pc'[p] = "idle" /\ ~ret'[p].pooled

C7_PutPoolsOrCloses == [][C7_PutStep]_vars

C7_Witness ==
    \E p, q \in Procs :
        /\ ret[p].op = "Put" /\ ret[p].conn # NilConn /\ ret[p].pooled
        /\ ret[q].op = "Put" /\ ret[q].conn # NilConn /\ ~ret[q].pooled
        /\ closeCount[ret[q].conn] = 1

\* C8: Put reports an error to its caller when the connection is nil, when
\* the pool is full and when the pool is closed.
C8_PutReportsError ==
    \A p \in Procs :
        (ret[p].op = "Put" /\ (ret[p].conn = NilConn \/ ~ret[p].pooled)) =>
            ret[p].err # NoErr

\* C9: Put(nil) is a no-op in every pool state: the pool, the channel and
\* the connections are unchanged and the lock is not taken.
C9_NilPutStaysOut ==
    \A p \in Procs :
        (frame[p].op = "Put" /\ frame[p].conn = NilConn) => (pc[p] = "Put" /\ mu # p)

C9_NilPutStep ==
    \A p \in Procs :
        (pc[p] = "Put" /\ frame[p].conn = NilConn /\ pc'[p] # "Put") =>
            /\ pc'[p] = "idle"
            /\ UNCHANGED <<poolVars, chanVars, connVars, held, swapped>>
            /\ UsedCapacity' = UsedCapacity /\ MaximumCapacity' = MaximumCapacity

C9_PutNilNoOp == []C9_NilPutStaysOut /\ [][C9_NilPutStep]_vars

C9_Witness ==
    \E p \in Procs :
        /\ pc[p] = "idle" /\ ret[p].op = "Put" /\ ret[p].conn = NilConn
        /\ conns # NIL /\ chanCap > 0 /\ Len(chanBuf) = chanCap

\* C10: on an open pool holding n idle connections, with no Put or Close, k
\* <= n Get calls each return one pooled connection without invoking the
\* factory, and once they are done Len = n - k.
C10_GetsTakePooled ==
    LET n == newArgs.initalCap
        k == calls.Get
    IN  (newRes.pool /\ calls.Put = 0 /\ calls.Close = 0 /\ k <= n) =>
          /\ factoryCalls.Get = 0
          /\ \A p \in Procs : pc[p] \notin {"factory", "panic"}
          /\ \A p \in Procs : ret[p].op = "Get" =>
                /\ ret[p].err = NoErr /\ ret[p].conn \in 1..n
                /\ ret[p].pooled /\ ~ret[p].minted
          /\ \A p, q \in Procs : p # q => held[p] \cap held[q] = {}
          /\ \A p \in Procs : \A i \in 1..Len(chanBuf) : chanBuf[i] \notin held[p]
          /\ (\A p \in Procs : pc[p] = "idle") =>
                /\ UsedCapacity = n - k
                /\ Cardinality(UNION {held[p] : p \in Procs}) = k

C10_Witness ==
    /\ newRes.pool /\ calls.Put = 0 /\ calls.Close = 0
    /\ newArgs.initalCap >= 2 /\ calls.Get = newArgs.initalCap
    /\ \A p \in Procs : pc[p] = "idle"
    /\ UsedCapacity = 0


\* C11: a Get that finds the open pool empty invokes the factory exactly once
\* and returns its result (connection or error) to the caller; the pool's
\* fields and the channel are unchanged either way, so more connections than
\* capacity can be checked out.
C11_Step ==
    \A p \in Procs :
        /\ (pc[p] = "select" /\ pc'[p] # "select" /\ conns # NIL /\ Len(chanBuf) = 0) =>
              /\ pc'[p] = "factory"
              /\ UNCHANGED <<poolVars, chanVars, connVars, held, factoryCalls>>
        /\ (pc[p] = "factory" /\ pc'[p] # "factory") =>
              /\ conns # NIL => pc'[p] = "idle"
              /\ pc'[p] = "idle" =>
                    /\ factoryCalls'.Get = factoryCalls.Get + 1
                    /\ factoryCalls'.New = factoryCalls.New
                    /\ ret'[p].op = "Get" /\ ret'[p].minted /\ ~ret'[p].pooled
                    /\ UNCHANGED <<poolVars, chanVars, closeCount, closedBy, swapped>>
                    /\ UsedCapacity' = UsedCapacity /\ MaximumCapacity' = MaximumCapacity
                    /\ \/ /\ ret'[p].err = NoErr /\ ret'[p].conn = nextConn
                          /\ held' = [held EXCEPT ![p] = @ \cup {nextConn}]
                       \/ /\ ret'[p].err = ErrFactory /\ ret'[p].conn = NilConn
                          /\ held' = held

C11_EmptyGetMints == [](factoryCalls.Get <= calls.Get) /\ [][C11_Step]_vars

C11_Witness ==
    /\ conns # NIL /\ ~swapped
    /\ Cardinality(UNION {held[p] : p \in Procs}) > MaximumCapacity
    /\ \E p \in Procs : ret[p].op = "Get" /\ ret[p].minted /\ ret[p].err = NoErr
    /\ \A p \in Procs : pc[p] = "idle"


\* the factory failed during New exactly when New returns the fill error
FactoryFailedInNew == newRes.err = ErrFill

\* C12: with a factory that never fails New succeeds iff 0 < initialCap <=
\* maxCap; on success the factory was invoked initialCap times, UsedCapacity()
\* is initialCap and MaximumCapacity() is maxCap; on invalid bounds New
\* returns an error and no pool without invoking the factory.
C12_NewContract ==
    LET ic == newArgs.initalCap
        mc == newArgs.maxCap
        valid == 0 < ic /\ ic <= mc
    IN  (newRes.done /\ ~FactoryFailedInNew) =>
          /\ newRes.pool <=> valid
          /\ newRes.pool =>
                /\ newRes.err = NoErr
                /\ factoryCalls.New = ic
                /\ CallsBegun = 0 => (UsedCapacity = ic /\ MaximumCapacity = mc)
          /\ ~newRes.pool =>
                /\ newRes.err = ErrInvalid
                /\ factoryCalls.New = 0 /\ nextConn = 1
                /\ conns = NIL /\ chanBuf = <<>>

C12_Witness ==
    /\ newRes.done /\ newRes.pool /\ CallsBegun = 0
    /\ newArgs.initalCap = 1 /\ newArgs.maxCap = 2
    /\ UsedCapacity = 1 /\ MaximumCapacity = 2

\* C13: if the factory fails on its j-th invocation during New, New returns
\* an error and no pool, the factory is not invoked again, and each of the
\* j-1 connections made before is closed exactly once; none is left open.
C13_NewUnwinds ==
    (newRes.done /\ FactoryFailedInNew) =>
        LET j == factoryCalls.New IN
        /\ ~newRes.pool
        /\ 1 <= j /\ j <= newArgs.initalCap
        /\ nextConn = j /\ factoryCalls.Get = 0
        /\ \A c \in ConnIds : closeCount[c] = (IF c < j THEN 1 ELSE 0)
        /\ \A c \in ConnIds : c < j => closedBy[c] = {"Close"}
        /\ chanBuf = <<>> /\ chanClosed
        /\ conns = NIL /\ factory = NIL
        /\ CallsBegun = 0 /\ \A p \in Procs : pc[p] = "idle"

C13_Witness ==
    /\ newRes.done /\ FactoryFailedInNew
    /\ factoryCalls.New = 2 /\ closeCount[1] = 1


\* C14: a Get that saw the pool open at its locked check receives from the
\* channel of that snapshot and calls the factory of that snapshot; it never
\* reads a nil p.conns or a nil p.factory after a concurrent Close.
C14_Step ==
    \A p \in Procs :
        /\ (pc[p] = "select" /\ pc'[p] # "select") =>
              /\ frame[p].conns # NIL
              /\ IF Len(chanBuf) > 0 \/ chanClosed
                 THEN pc'[p] = "idle"
                 ELSE pc'[p] = "factory"
        /\ (pc[p] = "factory" /\ pc'[p] # "factory") =>
              /\ pc'[p] = "idle" /\ panic' = "none"

C14_GetUsesSnapshot == [][C14_Step]_vars


\* C15: once closePool has swapped, nothing is added to the channel again:
\* every enqueue by Put happens before the swap, and after the swap no Put
\* attempts a send (so none sends on the closed channel).
C15_Step ==
    /\ swapped => \/ chanBuf' = chanBuf
                  \/ Len(chanBuf) > 0 /\ chanBuf' = Tail(chanBuf)
    /\ \A p \in Procs :
         (pc[p] = "put_locked" /\ pc'[p] # "put_locked") =>
             /\ Len(chanBuf') > Len(chanBuf) => (~swapped /\ ~chanClosed)
             /\ swapped => (pc'[p] = "Put_close" /\ chanBuf' = chanBuf)

C15_NoSendState ==
    /\ panic # "send on closed channel"
    /\ chanClosed => swapped
    /\ \A p \in Procs : (ret[p].op = "Put" /\ ret[p].afterSwap) => ~ret[p].pooled

C15_NoEnqueueAfterSwap == []C15_NoSendState /\ [][C15_Step]_vars

C15_Witness ==
    /\ swapped /\ ~chanClosed /\ Len(chanBuf) < chanCap
    /\ \E p \in Procs : pc[p] = "Put_close" /\ ~frame[p].afterSwap


\* connections checked out: got from Get or dialled, and not yet pooled or
\* closed by Put
CheckedOut == UNION {held[p] : p \in Procs}

\* C16: Close never closes a connection that is checked out; what Close
\* closes is exactly what its drain loop takes from the captured channel.
C16_DrainState ==
    /\ \A c \in CheckedOut : "Close" \notin closedBy[c]
    /\ \A t \in Threads :
         pc[t] = "range_close" =>
             /\ t \in liveClosers
             /\ frame[t].conn \in ConnIds
             /\ frame[t].conn \notin CheckedOut
             /\ closeCount[frame[t].conn] = 0

C16_DrainStep ==
    /\ \A c \in ConnIds :
         ("Close" \in closedBy'[c] /\ "Close" \notin closedBy[c]) =>
             \E t \in liveClosers : pc[t] = "range_close" /\ frame[t].conn = c
    /\ \A t \in Threads :
         (pc[t] = "range" /\ pc'[t] = "range_close") =>
             /\ chanClosed /\ Len(chanBuf) > 0
             /\ frame'[t].conn = Head(chanBuf)
             /\ chanBuf' = Tail(chanBuf)
             /\ held' = held

C16_CloseSparesCheckedOut == []C16_DrainState /\ [][C16_DrainStep]_vars

C16_Witness ==
    /\ \E t \in Procs : pc[t] = "idle" /\ ret[t].op = "Close" /\ ret[t].live
    /\ \E c \in ConnIds : closedBy[c] = {"Close"}
    /\ \E p \in Procs : \E d \in held[p] :
         closeCount[d] = 0 /\ d <= newArgs.initalCap


\* a thread is inside a call of Get, Put or Close
InCall(t) == frame[t].op # "none"

\* C17: with a fair mutex and a factory and conn.Close() that return, every
\* Get, Put and Close call ends under any interleaving: it returns, or the
\* program ends in a panic; no call waits for a connection, for capacity or
\* in the drain loop.  Stated for all calls at once: whenever a call is in
\* progress, a later state has none in progress, so that call has ended.
C17_CallsTerminate ==
    (\E t \in Threads : InCall(t)) ~>
        ((\A t \in Threads : ~InCall(t)) \/ panic # "none")

C17_Witness ==
    /\ panic = "none" /\ chanClosed
    /\ calls.Get >= 1 /\ calls.Put >= 1 /\ calls.Close >= 1
    /\ \A t \in Threads : ~InCall(t)
    /\ \E c \in ConnIds : closedBy[c] = {"Close"}


\* C18: the factory is never invoked while the invoking goroutine holds the
\* mutex, in New and in Get; so a factory call that never returns does not
\* keep another goroutine's Get, Put or Close from completing.
C18_FactoryState ==
    /\ pc[Main] \in {"New", "New_loop"} => mu = Unlocked
    /\ \A p \in Procs : pc[p] \in {"select", "factory"} => mu # p

C18_FactoryStep ==
    /\ factoryCalls'.New # factoryCalls.New => mu # Main
    /\ \A p \in Procs : (pc[p] = "factory" /\ pc'[p] # "factory") => mu # p

C18_OthersComplete ==
    (\E t \in Threads : InCall(t) /\ pc[t] # "factory") ~>
        ((\A t \in Threads : ~InCall(t) \/ pc[t] = "factory") \/ panic # "none")

C18_FactoryOutsideLock ==
    /\ []C18_FactoryState
    /\ [][C18_FactoryStep]_vars
    /\ C18_OthersComplete

C18_Witness ==
    \E p, q \in Procs :
        /\ p # q /\ ~swapped
        /\ pc[p] = "factory"
        /\ pc[q] = "idle" /\ ret[q].op = "Put" /\ ret[q].pooled
        /\ chanBuf = <<ret[q].conn>>


\* C19: with callers that Put only connections they hold, once per
\* acquisition, no connection is in the channel twice and none is held by two
\* callers at once: two Gets return the same pooled connection only if it was
\* Put back in between.
C19_NoDuplicates ==
    /\ \A i, j \in 1..Len(chanBuf) : i # j => chanBuf[i] # chanBuf[j]
    /\ \A p, q \in Procs : p # q => held[p] \cap held[q] = {}
    /\ \A i \in 1..Len(chanBuf) : chanBuf[i] \in ConnIds /\ chanBuf[i] \notin CheckedOut
    /\ \A p, q \in Procs :
         (/\ p # q /\ pc[p] = "idle" /\ pc[q] = "idle"
          /\ ret[p].op = "Get" /\ ret[q].op = "Get"
          /\ ret[p].conn # NilConn /\ ret[p].conn = ret[q].conn) =>
             ~(ret[p].conn \in held[p] /\ ret[q].conn \in held[q])

C19_Witness ==
    \E p \in Procs :
        /\ calls.Put >= 1
        /\ pc[p] = "idle" /\ ret[p].op = "Get" /\ ret[p].pooled
        /\ ret[p].conn > newArgs.initalCap /\ ret[p].conn \in held[p]


\* where a connection can be: buffered in the channel; in the hands of a
\* goroutine (checked out by a client, or taken by the goroutine running
\* Close, between its receive and conn.Close()); closed
InQueue(c) == \E i \in 1..Len(chanBuf) : chanBuf[i] = c
InDrain(c) == \E t \in Threads : pc[t] = "range_close" /\ frame[t].conn = c
InHand(c) == c \in CheckedOut \/ InDrain(c)
IsClosed(c) == closeCount[c] >= 1
Places(c) ==
    (IF InQueue(c) THEN 1 ELSE 0) + (IF InHand(c) THEN 1 ELSE 0)
        + (IF IsClosed(c) THEN 1 ELSE 0)

\* C20: every connection the factory produced is in exactly one place - the
\* channel, the hands of a goroutine, or closed - and once Close has run and
\* no call is in flight the channel is empty: every connection is closed or
\* held by a caller.
C20_Conserved ==
    /\ \A c \in ConnIds : Places(c) = (IF c < nextConn THEN 1 ELSE 0)
    /\ \A c \in ConnIds : ~(c \in CheckedOut /\ InDrain(c))
    /\ (swapped /\ \A t \in Threads : ~InCall(t)) =>
          /\ chanBuf = <<>>
          /\ \A c \in ConnIds : c < nextConn => (IsClosed(c) \/ c \in CheckedOut)

C20_Witness ==
    /\ swapped /\ panic = "none" /\ \A t \in Threads : ~InCall(t)
    /\ \E c \in ConnIds : closedBy[c] = {"Close"}
    /\ \E c \in CheckedOut : ~IsClosed(c)
    /\ calls.Put >= 1

====
